---------------------------- MODULE Spec2Model ----------------------------
(***************************************************************************)
(* State-machine model of pmd_beamphysics/particles.py: the ParticleGroup  *)
(* class and its helper constructors (full_data, split_particles,          *)
(* resample, particle_parts, join_particle_groups).                        *)
(*                                                                         *)
(* Numbers.  Every numpy float is modelled by an exact rational <<n, d>>   *)
(* (d > 0, lowest terms); integers are rationals with d = 1.  Rounding is  *)
(* not modelled: "equal" below means equal as rationals.                   *)
(*                                                                         *)
(* Arrays.  A numpy array is an object that reads a stretch of a buffer.   *)
(* mem holds the buffers, an ensemble holds one reference (buffer address, *)
(* start, length) per canonical array, so that two ensembles reading the   *)
(* same buffer are distinguishable from two ensembles owning equal data.   *)
(* Positions in the model are 1-based; Python indices given by a caller    *)
(* are 0-based and converted where they are used.                          *)
(***************************************************************************)
EXTENDS Integers, Sequences, FiniteSets, TLC

VARIABLES
    groups,   \* the ParticleGroup objects, by slot
    mem,      \* the buffers their arrays read, by address
    plist,    \* the list the last split returned (slots)
    last,     \* the last call: name, operands, results, arguments, outcome
    made,     \* for each object, the call that returned it and its operands
    nops      \* calls made so far

vars == <<groups, mem, plist, last, made, nops>>

-----------------------------------------------------------------------------
(* Bounds of the model *)

\* ParticleGroup objects alive at once
MaxGroups == 5
\* calls made in one run
MaxOps == 3
\* longest array handed to the constructor
MaxN == 3
\* largest n_chunks handed to split
MaxChunks == 3

-----------------------------------------------------------------------------
(* Exact rationals standing for numpy floats *)

Abs(i) == IF i < 0 THEN -i ELSE i

RECURSIVE Gcd(_, _)
Gcd(a, b) == IF b = 0 THEN a ELSE Gcd(b, a % b)

Rat(n, d) ==
    LET g == Gcd(Abs(n), Abs(d))
        s == IF d < 0 THEN -1 ELSE 1
    IN  <<(s * n) \div g, (s * d) \div g>>

I(n) == <<n, 1>>

RAdd(a, b) == Rat(a[1] * b[2] + b[1] * a[2], a[2] * b[2])
RSub(a, b) == Rat(a[1] * b[2] - b[1] * a[2], a[2] * b[2])
RMul(a, b) == Rat(a[1] * b[1], a[2] * b[2])
RDiv(a, b) == Rat(a[1] * b[2], a[2] * b[1])
RLeq(a, b) == a[1] * b[2] <= b[1] * a[2]
RLess(a, b) == a[1] * b[2] < b[1] * a[2]
RZero(a) == a[1] = 0

\* exact square root; the inputs of the model keep every radicand a perfect square
ISqrt(n) == CHOOSE s \in 0..n : s * s = n
RSqrt(a) == <<ISqrt(a[1]), ISqrt(a[2])>>

RECURSIVE RSum(_)
RSum(s) == IF s = <<>> THEN I(0) ELSE RAdd(Head(s), RSum(Tail(s)))

-----------------------------------------------------------------------------
(* Sequences *)

Range(s) == {s[i] : i \in DOMAIN s}

\* no broadcast: the value alone
np_full_one(n, v) == <<v>>

\* np.full(n, v)
np_full(n, v) == [i \in 1..n |-> v]

\* np.hstack of a list of sequences
RECURSIVE np_hstack(_)
np_hstack(ss) == IF ss = <<>> THEN <<>> ELSE Head(ss) \o np_hstack(Tail(ss))

\* a[ix] for an integer index array ix (1-based positions)
Take(a, ix) == [i \in 1..Len(ix) |-> a[ix[i]]]

Perms(n) == {p \in [1..n -> 1..n] : \A i, j \in 1..n : i # j => p[i] # p[j]}

\* np.argsort(a): the default sort is not stable, so every index order that
\* sorts a ascending is a possible result
np_argsort(a) ==
    {p \in Perms(Len(a)) : \A i \in 1..Len(a) - 1 : RLeq(a[p[i]], a[p[i + 1]])}


-----------------------------------------------------------------------------
(* Program constants, in the units of the model *)

\* c_light (particles.py line 28), with the metre chosen so that c = 2
c_light == 2
\* mass_of['electron'] (particles.py line 26), with the eV chosen so that m = 4
mass_electron == 4

\* _settable_array_keys as __init__ sets it, and the optional key
required_keys == <<"x", "px", "y", "py", "z", "pz", "t", "status", "weight">>
optional_keys == <<"id">>
ArrayKeys == Range(required_keys) \cup Range(optional_keys)

-----------------------------------------------------------------------------
(* Python values: scalars and numpy array objects *)

Slots == 1..MaxGroups
Addrs == Slots \X ArrayKeys
NoAddr == <<0, "">>

\* a Python or numpy scalar
Scalar(v) == [kind |-> "scalar", addr |-> NoAddr, start |-> 1, len |-> 1, data |-> <<v>>]
\* a newly allocated array owning its data
Fresh(seq) == [kind |-> "array", addr |-> NoAddr, start |-> 1, len |-> Len(seq), data |-> seq]
\* an array object reading len items of the buffer at addr, from position start
View(addr, start, len) == [kind |-> "array", addr |-> addr, start |-> start, len |-> len, data |-> <<>>]

\* the items an array object (or scalar) reads, given the buffers M
Values(M, o) ==
    IF o.addr = NoAddr THEN o.data
    ELSE SubSeq(M[o.addr], o.start, o.start + o.len - 1)

np_isscalar(o) == o.kind = "scalar"

\* an index for arr[x]: a Python int, a slice lo:hi, a boolean mask, an integer array
IntIndex(i) == [type |-> "int", lo |-> i, hi |-> i, seq |-> <<>>]
SliceIndex(lo, hi) == [type |-> "slice", lo |-> lo, hi |-> hi, seq |-> <<>>]
MaskIndex(m) == [type |-> "mask", lo |-> 0, hi |-> 0, seq |-> m]
ArrayIndex(ix) == [type |-> "intarray", lo |-> 0, hi |-> 0, seq |-> ix]

Min(a, b) == IF a < b THEN a ELSE b
Max(a, b) == IF a > b THEN a ELSE b

\* positions (1-based, ascending) at which a boolean mask is TRUE; np.where(mask)
RECURSIVE np_where(_)
np_where(m) ==
    IF m = <<>> THEN <<>>
    ELSE LET rest == np_where(SubSeq(m, 1, Len(m) - 1))
         IN  IF m[Len(m)] THEN Append(rest, Len(m)) ELSE rest

\* does arr[x] raise IndexError for an array of n items
IndexError(n, x) ==
    CASE x.type = "int" -> ~(0 <= x.lo /\ x.lo < n)
      [] x.type = "slice" -> FALSE
      [] x.type = "mask" -> Len(x.seq) # n
      [] x.type = "intarray" -> \E i \in DOMAIN x.seq : ~(0 <= x.seq[i] /\ x.seq[i] < n)

\* arr[x]: an int gives a numpy scalar, a slice gives a view of the same
\* buffer, a mask or an integer array gives a new array
GetItem(M, o, x) ==
    CASE x.type = "int" -> Scalar(Values(M, o)[x.lo + 1])
      [] x.type = "slice" ->
            LET lo == Min(x.lo, o.len)
                hi == Max(lo, Min(x.hi, o.len))
            IN  IF o.addr = NoAddr
                THEN Fresh(SubSeq(o.data, lo + 1, hi))
                ELSE View(o.addr, o.start + lo, hi - lo)
      [] x.type = "mask" -> Fresh(Take(Values(M, o), np_where(x.seq)))
      [] x.type = "intarray" -> Fresh(Take(Values(M, o), [i \in DOMAIN x.seq |-> x.seq[i] + 1]))

\* np.asarray(v): v itself when v is an array already
np_asarray(M, v) == v

\* np.array(v): always a new array holding a copy of v's items
np_array(M, v) == Fresh(Values(M, v))

-----------------------------------------------------------------------------
(* full_data and ParticleGroup.__init__(data=...) *)

\* full_data(data): data maps keys to scalars or array objects
full_data(M, data) ==
    LET scalar_keys == {k \in DOMAIN data : np_isscalar(data[k]) \/ data[k].len = 1}
        array_keys == DOMAIN data \ scalar_keys
        scalars == [k \in scalar_keys |-> Values(M, data[k])[1]]
        arrays == [k \in array_keys |-> np_array(M, data[k])]
        nlist == {arrays[k].len : k \in array_keys}
    IN  IF array_keys = {}
        THEN [ok |-> TRUE, err |-> "", data |-> [k \in scalar_keys |-> Fresh(<<scalars[k]>>)]]
        ELSE IF Cardinality(nlist) # 1
        THEN [ok |-> FALSE, err |-> "AssertionError: arrays must have the same length", data |-> <<>>]
        ELSE LET n == CHOOSE n \in nlist : TRUE
             IN  [ok |-> TRUE, err |-> "",
                  data |-> [k \in DOMAIN data |->
                               IF k \in array_keys THEN arrays[k]
                               ELSE Fresh(np_full(n, scalars[k]))]]

\* ParticleGroup.__init__(data=data): the attributes of the new object, or the error
ParticleGroup(M, data) ==
    LET fd == full_data(M, data)
    IN  IF ~fd.ok THEN [ok |-> FALSE, err |-> fd.err, keys |-> <<>>, objs |-> <<>>, species |-> Scalar("")]
        ELSE IF "species" \notin DOMAIN fd.data
        THEN [ok |-> FALSE, err |-> "KeyError: species", keys |-> <<>>, objs |-> <<>>, species |-> Scalar("")]
        ELSE LET species == Range(fd.data["species"].data)
                 keys == IF "id" \in DOMAIN fd.data THEN required_keys \o optional_keys
                         ELSE required_keys
             IN  IF Cardinality(species) > 1
                 THEN [ok |-> FALSE, err |-> "AssertionError: mixed species are not allowed",
                       keys |-> <<>>, objs |-> <<>>, species |-> Scalar("")]
                 ELSE IF ~(Range(keys) \subseteq DOMAIN fd.data)
                 THEN [ok |-> FALSE, err |-> "KeyError", keys |-> <<>>, objs |-> <<>>, species |-> Scalar("")]
                 ELSE [ok |-> TRUE, err |-> "", keys |-> keys,
                       objs |-> [k \in Range(keys) |-> fd.data[k]],
                       species |-> IF Cardinality(species) = 1
                                   THEN Scalar(CHOOSE sp \in species : TRUE)
                                   ELSE fd.data["species"]]

-----------------------------------------------------------------------------
(* The object store: ParticleGroup objects and the buffers their arrays read *)

NoGroup == [keys |-> <<>>, arr |-> <<>>, species |-> Scalar("")]
live(G, s) == G[s].keys # <<>>
LiveSlots(G) == {s \in Slots : live(G, s)}
FreeSlots(G) == Slots \ LiveSlots(G)

\* the array object stored as attribute k of group s
Attr(G, s, k) == View(G[s].arr[k].addr, G[s].arr[k].start, G[s].arr[k].len)
\* the items of attribute k of group s
Arr(G, M, s, k) == Values(M, Attr(G, s, k))

\* is the buffer at address a read by an array of a group other than s
ReadByOthers(G, a, s) ==
    \E r \in LiveSlots(G) \ {s} : \E k \in DOMAIN G[r].arr : G[r].arr[k].addr = a

\* where a new array bound to attribute k of group s is allocated: a buffer no
\* live array reads
Alloc(G, s, k) ==
    IF ~ReadByOthers(G, <<s, k>>, s) THEN <<s, k>>
    ELSE CHOOSE a \in Addrs : a[2] = k /\ ~ReadByOthers(G, a, 0)

\* self.__dict__[k] = obj for every k of keys, in the object at slot s
\* (a new array is given a buffer; a view keeps reading the buffer it views)
SetAttrs(st, s, keys, objs, species) ==
    LET G == st.g
        oldkeys == IF live(G, s) THEN G[s].keys ELSE <<>>
        allkeys == oldkeys \o SelectSeq(keys, LAMBDA k : k \notin Range(oldkeys))
        ref(k) == IF k \in Range(keys)
                  THEN IF objs[k].addr = NoAddr
                       THEN [addr |-> Alloc(G, s, k), start |-> 1, len |-> objs[k].len]
                       ELSE [addr |-> objs[k].addr, start |-> objs[k].start, len |-> objs[k].len]
                  ELSE G[s].arr[k]
        newarr == [k \in Range(allkeys) |-> ref(k)]
        G2 == [G EXCEPT ![s] = [keys |-> allkeys, arr |-> newarr, species |-> species]]
        written(a) == a[2] \in Range(keys) /\ objs[a[2]].addr = NoAddr /\ newarr[a[2]].addr = a
        \* the buffers the replaced arrays read, released when no array reads them any more
        old == {G[s].arr[k].addr : k \in Range(keys) \cap Range(oldkeys)}
        M2 == [a \in Addrs |->
                 IF written(a) THEN objs[a[2]].data
                 ELSE IF a \in old /\ ~ReadByOthers(G2, a, 0) THEN <<>>
                 ELSE st.m[a]]
    IN  [g |-> G2, m |-> M2]

\* len(self): the length of the first settable array
len(G, s) == G[s].arr[G[s].keys[1]].len


-----------------------------------------------------------------------------
(* Derived properties and statistics *)

\* mass_of[self.species]: only 'electron' is a key of mass_of
mass_defined(G, s) == G[s].species = Scalar("electron")
mass(G, s) == I(mass_electron)

\* self.energy = sqrt(px**2 + py**2 + pz**2 + mass**2), per particle
energy(G, M, s) ==
    LET sq(v) == RMul(v, v)
        px == Arr(G, M, s, "px")
        py == Arr(G, M, s, "py")
        pz == Arr(G, M, s, "pz")
    IN  [i \in 1..len(G, s) |->
           RSqrt(RAdd(RAdd(sq(px[i]), sq(py[i])), RAdd(sq(pz[i]), sq(mass(G, s)))))]

\* self.beta_x, self.beta_y, self.beta_z: momentum component over energy
beta(G, M, s, pk) ==
    LET p == Arr(G, M, s, pk)
        e == energy(G, M, s)
    IN  [i \in 1..len(G, s) |-> RDiv(p[i], e[i])]

\* self.charge = np.sum(self.weight)
charge(G, M, s) == RSum(Arr(G, M, s, "weight"))

\* np.average(dat, weights=w) raises ZeroDivisionError when the weights sum to zero
avg_defined(G, M, s) == ~RZero(charge(G, M, s))

\* self.avg(key) for an array key: np.average(dat, weights=self.weight)
avg(G, M, s, key) ==
    LET dat == Arr(G, M, s, key)
        w == Arr(G, M, s, "weight")
    IN  RDiv(RSum([i \in 1..Len(dat) |-> RMul(dat[i], w[i])]), RSum(w))

-----------------------------------------------------------------------------
(* The state *)

NoCall == [op |-> "", src |-> <<>>, dst |-> <<>>, ok |-> TRUE, err |-> "",
           n |-> 0, key |-> "", val |-> <<>>, ix |-> <<>>]

\* the record of a call: its name, the slots of its operands and of the objects it
\* returned, whether it returned (ok) or raised (err), and its arguments
Call(op, src, dst, err, n, key, val, ix) ==
    [op |-> op, src |-> src, dst |-> dst, ok |-> (err = ""), err |-> err,
     n |-> n, key |-> key, val |-> val, ix |-> ix]

TypeOK ==
    /\ nops \in 0..MaxOps
    /\ DOMAIN groups = Slots
    /\ DOMAIN mem = Addrs
    /\ Range(plist) \subseteq Slots

Init ==
    /\ groups = [s \in Slots |-> NoGroup]
    /\ mem = [a \in Addrs |-> <<>>]
    /\ plist = <<>>
    /\ last = NoCall
    /\ made = [s \in Slots |-> [op |-> "", src |-> <<>>, key |-> ""]]
    /\ nops = 0

\* a call that raised: nothing is changed
Raise(c) ==
    /\ last' = c
    /\ nops' = nops + 1
    /\ UNCHANGED <<groups, mem, plist, made>>

\* a call that returned, leaving the store st
Return(st, c) ==
    /\ groups' = st.g
    /\ mem' = st.m
    /\ last' = c
    /\ made' = [s \in Slots |-> IF s \in Range(c.dst) THEN [op |-> c.op, src |-> c.src, key |-> c.key]
                                 ELSE made[s]]
    /\ nops' = nops + 1
    /\ plist' = IF c.op = "split" THEN c.dst ELSE plist

Here == [g |-> groups, m |-> mem]

\* the slot a newly constructed object is put in
NewSlot(G) == CHOOSE d \in FreeSlots(G) : \A e \in FreeSlots(G) : d <= e

\* P = ParticleGroup(data=data)
New(data) ==
    /\ nops < MaxOps
    /\ FreeSlots(groups) # {}
    /\ LET r == ParticleGroup(mem, data)
           d == NewSlot(groups)
       IN  IF r.ok
           THEN Return(SetAttrs(Here, d, r.keys, r.objs, r.species),
                       Call("new", <<>>, <<d>>, "", 0, "", data, <<>>))
           ELSE Raise(Call("new", <<>>, <<>>, r.err, 0, "", data, <<>>))


-----------------------------------------------------------------------------
(* In-place methods *)

\* the arrays drift(delta_t) binds to x, y, z and t; delta_t is one value per
\* particle (a scalar delta_t is the same value for every particle)
drift_arrays(G, M, s, delta_t) ==
    LET moved(k, pk) ==
            LET a == Arr(G, M, s, k)
                b == beta(G, M, s, pk)
            IN  [i \in 1..len(G, s) |-> RAdd(a[i], RMul(RMul(b[i], I(c_light)), delta_t[i]))]
        t == Arr(G, M, s, "t")
    IN  [k \in {"x", "y", "z", "t"} |->
           CASE k = "x" -> Fresh(moved("x", "px"))
             [] k = "y" -> Fresh(moved("y", "py"))
             [] k = "z" -> Fresh(moved("z", "pz"))
             [] k = "t" -> Fresh([i \in 1..len(G, s) |-> RAdd(t[i], delta_t[i])])]

\* self.drift(delta_t) applied to the store st
drift(st, s, delta_t) ==
    SetAttrs(st, s, <<"x", "y", "z", "t">>, drift_arrays(st.g, st.m, s, delta_t), st.g[s].species)

\* P.drift(delta_t) with a scalar delta_t
Drift(s, delta_t) ==
    /\ nops < MaxOps
    /\ live(groups, s)
    /\ IF ~mass_defined(groups, s)
       THEN Raise(Call("drift", <<s>>, <<>>, "KeyError: mass_of[species]", 0, "", delta_t, <<>>))
       ELSE Return(drift(Here, s, np_full(len(groups, s), delta_t)),
                   Call("drift", <<s>>, <<>>, "", 0, "", delta_t, <<>>))

\* an optional argument: None, or a number
None == <<>>
\* Python's "not v" for None or a number
falsy(v) == v = None \/ RZero(v)

\* P.drift_to_z(z)
DriftToZ(s, z) ==
    /\ nops < MaxOps
    /\ live(groups, s)
    /\ LET c(err) == Call("drift_to_z", <<s>>, <<>>, err, 0, "", z, <<>>)
       IN  IF falsy(z) /\ ~avg_defined(groups, mem, s)
           THEN Raise(c("ZeroDivisionError: Weights sum to zero"))
           ELSE IF ~mass_defined(groups, s)
           THEN Raise(c("KeyError: mass_of[species]"))
           ELSE LET z0 == IF falsy(z) THEN avg(groups, mem, s, "z") ELSE z
                    zs == Arr(groups, mem, s, "z")
                    bz == beta(groups, mem, s, "pz")
                    dt == [i \in 1..len(groups, s) |->
                             RDiv(RSub(z0, zs[i]), RMul(bz[i], I(c_light)))]
                    st1 == drift(Here, s, dt)
                    st2 == SetAttrs(st1, s, <<"z">>,
                                    [k \in {"z"} |-> Fresh(np_full(len(st1.g, s), z0))],
                                    st1.g[s].species)
                IN  Return(st2, c(""))

\* P.drift_to_t(t)
DriftToT(s, t) ==
    /\ nops < MaxOps
    /\ live(groups, s)
    /\ LET c(err) == Call("drift_to_t", <<s>>, <<>>, err, 0, "", t, <<>>)
       IN  IF falsy(t) /\ ~avg_defined(groups, mem, s)
           THEN Raise(c("ZeroDivisionError: Weights sum to zero"))
           ELSE IF ~mass_defined(groups, s)
           THEN Raise(c("KeyError: mass_of[species]"))
           ELSE LET t0 == IF falsy(t) THEN avg(groups, mem, s, "t") ELSE t
                    ts == Arr(groups, mem, s, "t")
                    dt == [i \in 1..len(groups, s) |-> RSub(t0, ts[i])]
                    st1 == drift(Here, s, dt)
                    st2 == SetAttrs(st1, s, <<"t">>,
                                    [k \in {"t"} |-> Fresh(np_full(len(st1.g, s), t0))],
                                    st1.g[s].species)
                IN  Return(st2, c(""))

\* a rescaling that reaches the first item only
imul_first(st, ref, f) ==
    [st EXCEPT !.m[ref.addr] =
        [i \in 1..Len(@) |-> IF i = ref.start /\ ref.len > 0 THEN RMul(@[i], f) ELSE @[i]]]

\* arr *= f: every item the array object reads is changed in its buffer
imul(st, ref, f) ==
    [st EXCEPT !.m[ref.addr] =
        [i \in 1..Len(@) |->
           IF ref.start <= i /\ i < ref.start + ref.len THEN RMul(@[i], f) ELSE @[i]]]

\* P.charge = val
SetCharge(s, val) ==
    /\ nops < MaxOps
    /\ live(groups, s)
    /\ LET c(err) == Call("charge", <<s>>, <<>>, err, 0, "", val, <<>>)
       IN  IF ~RLess(I(0), val)
           THEN Raise(c("AssertionError: charge must be >0"))
           ELSE IF RZero(charge(groups, mem, s))
           \* val/0.0 is inf and the array is empty: nothing to rescale
           THEN Return(Here, c(""))
           ELSE Return(imul(Here, groups[s].arr["weight"], RDiv(val, charge(groups, mem, s))), c(""))

\* a range that stops one short
np_arange1_short(n) == [i \in 1..(n - 1) |-> I(i)]

\* np.arange(1, n + 1)
np_arange1(n) == [i \in 1..n |-> I(i)]

\* P.assign_id()
AssignId(s) ==
    /\ nops < MaxOps
    /\ live(groups, s)
    /\ Return(SetAttrs(Here, s, <<"id">>,
                       [k \in {"id"} |-> Fresh(np_arange1(len(groups, s)))],
                       groups[s].species),
              Call("assign_id", <<s>>, <<>>, "", 0, "", <<>>, <<>>))

\* P._sort(key), ixlist being the result of np.argsort(self[key])
Sort(s, key, ixlist) ==
    /\ nops < MaxOps
    /\ live(groups, s)
    /\ key \in DOMAIN groups[s].arr
    /\ ixlist \in np_argsort(Arr(groups, mem, s, key))
    /\ Return(SetAttrs(Here, s, groups[s].keys,
                       [k \in Range(groups[s].keys) |-> Fresh(Take(Arr(groups, mem, s, k), ixlist))],
                       groups[s].species),
              Call("_sort", <<s>>, <<>>, "", 0, key, <<>>, ixlist))


-----------------------------------------------------------------------------
(* Methods and functions that return new ParticleGroup objects *)

\* deepcopy(self): every array is copied into a new one
deepcopy(G, M, s) == [k \in Range(G[s].keys) |-> Fresh(Arr(G, M, s, k))]

\* P.copy()
Copy(s) ==
    /\ nops < MaxOps
    /\ live(groups, s)
    /\ FreeSlots(groups) # {}
    /\ LET d == NewSlot(groups)
       IN  Return(SetAttrs(Here, d, groups[s].keys, deepcopy(groups, mem, s), groups[s].species),
                  Call("copy", <<s>>, <<d>>, "", 0, "", <<>>, <<>>))

\* the data particle_parts, split_particles and resample hand to ParticleGroup:
\* every settable array indexed by x, and the species
parts_data(G, M, s, x) ==
    [k \in Range(G[s].keys) \cup {"species"} |->
        IF k = "species" THEN G[s].species ELSE GetItem(M, Attr(G, s, k), x)]

\* particle_parts(particle_group, x), called by P[x] for a non-string x
particle_parts(G, M, s, x) ==
    IF IndexError(len(G, s), x)
    THEN [ok |-> FALSE, err |-> "IndexError", keys |-> <<>>, objs |-> <<>>, species |-> Scalar("")]
    ELSE ParticleGroup(M, parts_data(G, M, s, x))

\* P[x] for a non-string x
Parts(s, x) ==
    /\ nops < MaxOps
    /\ live(groups, s)
    /\ FreeSlots(groups) # {}
    /\ LET r == particle_parts(groups, mem, s, x)
           d == NewSlot(groups)
       IN  IF r.ok
           THEN Return(SetAttrs(Here, d, r.keys, r.objs, r.species),
                       Call("getitem", <<s>>, <<d>>, "", 0, x.type, x, <<>>))
           ELSE Raise(Call("getitem", <<s>>, <<>>, r.err, 0, x.type, x, <<>>))

\* P.where(x) for a boolean array x: self[np.where(x)]
Where(s, x) ==
    /\ nops < MaxOps
    /\ live(groups, s)
    /\ FreeSlots(groups) # {}
    /\ Len(x) = len(groups, s)
    /\ LET ix == ArrayIndex([i \in 1..Len(np_where(x)) |-> np_where(x)[i] - 1])
           r == particle_parts(groups, mem, s, ix)
           d == NewSlot(groups)
       IN  IF r.ok
           THEN Return(SetAttrs(Here, d, r.keys, r.objs, r.species),
                       Call("where", <<s>>, <<d>>, "", 0, "", ix, <<>>))
           ELSE Raise(Call("where", <<s>>, <<>>, r.err, 0, "", ix, <<>>))

\* a split into sections of n \div n_chunks items, the last one taking the rest
naive_array_split(iz, n_chunks) ==
    LET n == Len(iz)
        each == n \div n_chunks
    IN  [j \in 1..n_chunks |->
           IF j < n_chunks THEN SubSeq(iz, (j - 1) * each + 1, j * each)
           ELSE SubSeq(iz, (j - 1) * each + 1, n)]

\* np.array_split(iz, n_chunks): the first (n % n_chunks) sections hold
\* n \div n_chunks + 1 items, the others n \div n_chunks
np_array_split(iz, n_chunks) ==
    LET n == Len(iz)
        each == n \div n_chunks
        extras == n % n_chunks
        size(j) == IF j <= extras THEN each + 1 ELSE each
        first(j) == IF j <= extras THEN (j - 1) * (each + 1)
                    ELSE extras * (each + 1) + (j - 1 - extras) * each
    IN  [j \in 1..n_chunks |-> SubSeq(iz, first(j) + 1, first(j) + size(j))]

\* the n smallest free slots, ascending
RECURSIVE NewSlots(_, _)
NewSlots(free, n) ==
    IF n = 0 THEN <<>>
    ELSE LET d == CHOOSE d \in free : \A e \in free : d <= e
         IN  <<d>> \o NewSlots(free \ {d}, n - 1)

\* the objects rs[j] (results of ParticleGroup) put in the slots ds[j]
RECURSIVE SetAll(_, _, _)
SetAll(st, ds, rs) ==
    IF ds = <<>> THEN st
    ELSE SetAll(SetAttrs(st, Head(ds), Head(rs).keys, Head(rs).objs, Head(rs).species),
                Tail(ds), Tail(rs))

\* split_particles(particle_group, n_chunks, key): the list of ParticleGroup
\* results, one per chunk of the argsort result iz
split_particles(G, M, s, n_chunks, iz) ==
    LET chunks == np_array_split(iz, n_chunks)
    IN  [j \in 1..n_chunks |->
           ParticleGroup(M, parts_data(G, M, s, ArrayIndex([i \in 1..Len(chunks[j]) |-> chunks[j][i] - 1])))]

\* P.split(n_chunks, key), iz being the result of np.argsort(getattr(P, key))
Split(s, n_chunks, key, iz) ==
    /\ nops < MaxOps
    /\ live(groups, s)
    /\ key \in DOMAIN groups[s].arr
    /\ iz \in np_argsort(Arr(groups, mem, s, key))
    /\ Cardinality(FreeSlots(groups)) >= n_chunks
    /\ IF n_chunks <= 0
       THEN Raise(Call("split", <<s>>, <<>>, "ValueError: number sections must be larger than 0",
                       n_chunks, key, <<>>, iz))
       ELSE LET rs == split_particles(groups, mem, s, n_chunks, iz)
                ds == NewSlots(FreeSlots(groups), n_chunks)
            IN  IF \E j \in 1..n_chunks : ~rs[j].ok
                THEN Raise(Call("split", <<s>>, <<>>,
                                rs[CHOOSE j \in 1..n_chunks : ~rs[j].ok].err, n_chunks, key, <<>>, iz))
                ELSE Return(SetAll(Here, ds, rs), Call("split", <<s>>, ds, "", n_chunks, key, <<>>, iz))

\* the results np.random.choice(n_old, n, replace=False) can give: n distinct
\* 0-based indices in any order
Choices(n_old, n) ==
    {ix \in [1..n -> 0..(n_old - 1)] : \A i, j \in 1..n : i # j => ix[i] # ix[j]}

\* the data left as it is
no_reweight(data, f) == data

\* data['weight'] *= f on the data resample has built
reweight(data, f) ==
    [data EXCEPT !["weight"] = Fresh([i \in 1..Len(@.data) |-> RMul(@.data[i], f)])]

\* resample(particle_group, n), ixlist being the random draw
resample(G, M, s, n, ixlist) ==
    ParticleGroup(M, reweight(parts_data(G, M, s, ArrayIndex(ixlist)), Rat(len(G, s), n)))

\* P.resample(n)
Resample(s, n, ixlist) ==
    /\ nops < MaxOps
    /\ live(groups, s)
    /\ FreeSlots(groups) # {}
    /\ LET n_old == len(groups, s)
           c(err, dst) == Call("resample", <<s>>, dst, err, n, "", <<>>, ixlist)
       IN  IF ~(n <= n_old)
           THEN ixlist = <<>> /\ Raise(c("AssertionError: Cannot supersample", <<>>))
           ELSE IF Cardinality(Range(Arr(groups, mem, s, "weight"))) # 1
           THEN ixlist = <<>> /\ Raise(c("AssertionError: non-unique weights for resampling.", <<>>))
           ELSE IF n < 0
           THEN ixlist = <<>> /\ Raise(c("ValueError: negative dimensions are not allowed", <<>>))
           ELSE /\ ixlist \in Choices(n_old, n)
                /\ IF n = 0
                   THEN Raise(c("ZeroDivisionError: division by zero", <<>>))
                   ELSE LET r == resample(groups, mem, s, n, ixlist)
                            d == NewSlot(groups)
                        IN  IF r.ok
                            THEN Return(SetAttrs(Here, d, r.keys, r.objs, r.species), c("", <<d>>))
                            ELSE Raise(c(r.err, <<>>))

\* all([spe == species0 for spe in species]): a species that is not a string
\* (the empty array of a zero-length group) compares to an empty array, whose
\* truth value is False or an error
same_species(G, pgs) ==
    \A i \in DOMAIN pgs :
        /\ np_isscalar(G[pgs[i]].species)
        /\ G[pgs[i]].species = G[pgs[1]].species

\* the data join_particle_groups hands to ParticleGroup
join_data(G, M, pgs) ==
    [k \in Range(G[pgs[1]].keys) \cup {"species", "n_particle"} |->
        CASE k = "species" -> G[pgs[1]].species
          [] k = "n_particle" -> Scalar(RSum([i \in DOMAIN pgs |-> I(len(G, pgs[i]))]))
          [] OTHER -> Fresh(np_hstack([i \in DOMAIN pgs |-> Arr(G, M, pgs[i], k)]))]

\* join_particle_groups(*particle_groups), particle_groups given by their slots
join_particle_groups(G, M, pgs) ==
    IF ~same_species(G, pgs)
    THEN [ok |-> FALSE, err |-> "AssertionError: species must be the same to join",
          keys |-> <<>>, objs |-> <<>>, species |-> Scalar("")]
    ELSE IF \E i \in DOMAIN pgs : ~(Range(G[pgs[1]].keys) \subseteq Range(G[pgs[i]].keys))
    THEN [ok |-> FALSE, err |-> "AttributeError: 'ParticleGroup' object has no attribute 'id'",
          keys |-> <<>>, objs |-> <<>>, species |-> Scalar("")]
    ELSE ParticleGroup(M, join_data(G, M, pgs))

\* join_particle_groups(*pgs); P1 + P2 is join_particle_groups(P1, P2)
Join(pgs) ==
    /\ nops < MaxOps
    /\ pgs # <<>>
    /\ \A i \in DOMAIN pgs : live(groups, pgs[i])
    /\ FreeSlots(groups) # {}
    /\ LET r == join_particle_groups(groups, mem, pgs)
           d == NewSlot(groups)
       IN  IF r.ok
           THEN Return(SetAttrs(Here, d, r.keys, r.objs, r.species),
                       Call("join", pgs, <<d>>, "", 0, "", <<>>, <<>>))
           ELSE Raise(Call("join", pgs, <<>>, r.err, 0, "", <<>>, <<>>))


-----------------------------------------------------------------------------
(* Inputs *)

\* a keyed mapping for n particles: x, y, status and the momenta are scalars,
\* z and t are lists of n items (z unsorted, with ties from 3 items on), weight
\* is a scalar (uniform) or a list 1..n, id is absent or a list.  The momenta
\* are nonzero multiples that keep every energy rational and beta_z nonzero.
Bunch(n, species, uniform, with_id) ==
    [k \in Range(required_keys) \cup {"species"} \cup (IF with_id THEN {"id"} ELSE {}) |->
        CASE k = "x" -> Scalar(I(0))
          [] k = "px" -> Scalar(I(1))
          [] k = "y" -> Scalar(I(0))
          [] k = "py" -> Scalar(I(2))
          [] k = "z" -> Fresh([i \in 1..n |-> I((n - i) % 2)])
          [] k = "pz" -> Scalar(I(2))
          [] k = "t" -> Fresh([i \in 1..n |-> I(i)])
          [] k = "status" -> Scalar(I(1))
          [] k = "weight" -> IF uniform THEN Scalar(I(1)) ELSE Fresh([i \in 1..n |-> I(i)])
          [] k = "species" -> Scalar(species)
          [] k = "id" -> Fresh([i \in 1..n |-> I(10 + i)])]

\* the mappings the machine constructs from
Bunches ==
    {Bunch(n, "electron", TRUE, FALSE) : n \in 0..MaxN}
    \cup {Bunch(MaxN, "electron", FALSE, FALSE),
          Bunch(2, "positron", TRUE, FALSE),
          Bunch(2, "electron", TRUE, TRUE),
          [Bunch(2, "electron", TRUE, FALSE) EXCEPT !["t"] = Fresh(<<I(1), I(2), I(3)>>)]}

DriftSteps == {I(1)}
Targets == {None, I(0), I(2)}
Charges == {I(-1), I(0), I(3)}
SortKeys == {"z", "t"}
IntIndexes == {IntIndex(0), IntIndex(MaxN)}
SliceIndexes == {SliceIndex(0, 2), SliceIndex(1, MaxN), SliceIndex(0, 0)}
ArrayIndexes == {ArrayIndex(<<0, 0>>), ArrayIndex(<<1, 0>>), ArrayIndex(<<MaxN>>)}
\* boolean masks for n particles: all, none, all but the first; and one of a wrong length
MaskIndexes(n) ==
    {MaskIndex([i \in 1..n |-> TRUE]), MaskIndex([i \in 1..n |-> FALSE]),
     MaskIndex([i \in 1..n |-> i > 1]), MaskIndex([i \in 1..(n + 1) |-> TRUE])}

-----------------------------------------------------------------------------
(* The machine *)

\* the objects a call can be made on
Callable == IF nops < MaxOps THEN LiveSlots(groups) ELSE {}

Next ==
    \/ \E data \in Bunches : New(data)
    \/ \E s \in Callable, delta_t \in DriftSteps : Drift(s, delta_t)
    \/ \E s \in Callable, z \in Targets : DriftToZ(s, z)
    \/ \E s \in Callable, t \in Targets : DriftToT(s, t)
    \/ \E s \in Callable, val \in Charges : SetCharge(s, val)
    \/ \E s \in Callable : AssignId(s)
    \/ \E s \in Callable, key \in SortKeys :
          \E ixlist \in np_argsort(Arr(groups, mem, s, key)) : Sort(s, key, ixlist)
    \/ \E s \in Callable : Copy(s)
    \/ \E s \in Callable, x \in IntIndexes : Parts(s, x)
    \/ \E s \in Callable, x \in SliceIndexes : Parts(s, x)
    \/ \E s \in Callable : \E x \in MaskIndexes(len(groups, s)) : Parts(s, x)
    \/ \E s \in Callable, x \in ArrayIndexes : Parts(s, x)
    \/ \E s \in Callable : \E x \in [1..len(groups, s) -> BOOLEAN] : Where(s, x)
    \/ \E s \in Callable, n_chunks \in 0..MaxChunks, key \in SortKeys :
          \E iz \in np_argsort(Arr(groups, mem, s, key)) : Split(s, n_chunks, key, iz)
    \/ \E s \in Callable, n \in (-1)..(MaxN + 1) :
          \E ixlist \in {<<>>} \cup Choices(len(groups, s), n) : Resample(s, n, ixlist)
    \/ \E a, b \in Callable : Join(<<a, b>>)
    \/ \E a \in Callable : Join(<<a>>)
    \/ Join(plist)

Spec == Init /\ [][Next]_vars

\* a number given as a scalar (l < 0) or as a list of l items
Shaped(l) == IF l < 0 THEN Scalar(I(7)) ELSE Fresh([i \in 1..l |-> I(i)])

\* keyed mappings of every shape: z, t and weight each a scalar or a list of
\* 0..MaxN items, species a string or a list of two strings, equal or mixed
Raw(lz, lt, lw, species) ==
    [Bunch(0, "electron", TRUE, FALSE) EXCEPT
        !["z"] = Shaped(lz), !["t"] = Shaped(lt), !["weight"] = Shaped(lw), !["species"] = species]

RawInputs ==
    {Raw(lz, lt, lw, species) :
        lz \in (-1)..MaxN, lt \in (-1)..MaxN, lw \in (-1)..MaxN,
        species \in {Scalar("electron"), Fresh(<<"electron", "electron">>),
                     Fresh(<<"electron", "positron">>)}}

\* the constructor alone, on mappings of every shape
NextNew == nops = 0 /\ \E data \in RawInputs : New(data)

SpecNew == Init /\ [][NextNew]_vars


-----------------------------------------------------------------------------
(* Bracket lookup with a string key: ParticleGroup.__getitem__ *)

\* key.startswith(prefix)
startswith(key, prefix) ==
    Len(key) >= Len(prefix) /\ SubSeq(key, 1, Len(prefix)) = prefix

\* a slice that starts one character early
from_early(key, n) == SubSeq(key, n, Len(key))

\* key[n:]
from(key, n) == SubSeq(key, n + 1, Len(key))

\* s.find(sep) as a 1-based position, 0 when sep does not occur in s
find(s, sep) ==
    LET at == {i \in 1..(Len(s) - Len(sep) + 1) : SubSeq(s, i, i + Len(sep) - 1) = sep}
    IN  IF at = {} THEN 0 ELSE CHOOSE i \in at : \A j \in at : i <= j

\* s.split(sep): cut at every occurrence of sep, scanning from the left
RECURSIVE split(_, _)
split(s, sep) ==
    LET i == find(s, sep)
    IN  IF i = 0 THEN <<s>>
        ELSE <<SubSeq(s, 1, i - 1)>> \o split(SubSeq(s, i + Len(sep), Len(s)), sep)

\* the properties and methods the class defines
class_attributes ==
    {"n_particle", "n_alive", "n_dead", "units", "mass", "species_charge", "charge",
     "p", "energy", "kinetic_energy", "xp", "yp", "r", "theta", "pr", "ptheta",
     "gamma", "beta", "beta_x", "beta_y", "beta_z", "x_bar", "px_bar", "Jx",
     "y_bar", "py_bar", "Jy", "delta", "min", "max", "ptp", "avg", "std", "cov",
     "norm_emit_x", "norm_emit_y", "norm_emit_4d", "higher_order_energy_spread",
     "average_current", "where", "drift", "drift_to_z", "drift_to_t", "write",
     "write_astra", "write_bmad", "write_elegant", "write_genesis2_beam_file",
     "write_genesis4_distribution", "write_gpt", "write_impact", "write_opal",
     "plot", "split", "copy", "resample", "_sort", "assign_id",
     "__init__", "__getitem__", "__add__", "__len__", "__str__", "__repr__"}

\* the bookkeeping attributes __init__ sets
instance_attributes == {"_settable_array_keys", "_settable_scalar_keys", "_settable_keys"}

\* the properties that begin by reading mass_of[self.species]
needs_mass == {"mass", "energy", "kinetic_energy", "gamma", "beta", "beta_x", "beta_y", "beta_z"}

\* what the model does not evaluate: the outcome of reading the property or
\* method of that name
Derived(name) == [kind |-> "derived", addr |-> NoAddr, start |-> 1, len |-> 0, data |-> <<name>>]

\* getattr(self, name): the value, or the error raised
getattr(G, M, s, name) ==
    IF name \in Range(G[s].keys) THEN [err |-> "", val |-> Fresh(Arr(G, M, s, name))]
    ELSE IF name = "species" THEN [err |-> "", val |-> G[s].species]
    ELSE IF name \in instance_attributes THEN [err |-> "", val |-> Derived(name)]
    ELSE IF name \notin class_attributes
    THEN [err |-> "AttributeError: 'ParticleGroup' object has no attribute", val |-> Derived("")]
    ELSE IF name \in needs_mass /\ ~mass_defined(G, s)
    THEN [err |-> "KeyError: mass_of[species]", val |-> Derived("")]
    ELSE IF name = "n_particle" THEN [err |-> "", val |-> Scalar(I(len(G, s)))]
    ELSE IF name = "charge" THEN [err |-> "", val |-> Scalar(charge(G, M, s))]
    ELSE IF name = "mass" THEN [err |-> "", val |-> Scalar(mass(G, s))]
    ELSE IF name = "energy" THEN [err |-> "", val |-> Fresh(energy(G, M, s))]
    ELSE [err |-> "", val |-> Derived(name)]

NoResult == [err |-> "", fn |-> "", args |-> <<>>, of |-> <<>>, pick |-> <<>>]

\* self.fn(*keys)[pick] for a statistics method fn (delta, std, avg, min, max,
\* ptp, cov): each begins by getattr(self, key) for every key it is given; the
\* number it then computes from these values is not evaluated here, the result
\* is the term fn(values)[pick]
statistic(G, M, s, fn, keys, pick) ==
    LET got == [i \in DOMAIN keys |-> getattr(G, M, s, keys[i])]
        bad == {i \in DOMAIN keys : got[i].err # ""}
    IN  IF bad # {}
        THEN [NoResult EXCEPT !.err = got[CHOOSE i \in bad : \A j \in bad : i <= j].err]
        ELSE [err |-> "", fn |-> fn, args |-> keys,
              of |-> [i \in DOMAIN keys |-> got[i].val], pick |-> pick]

\* self[key] for a string key
getitem(G, M, s, key) ==
    IF startswith(key, "cov_")
    THEN LET subkeys == split(from(key, 4), "__")
         IN  IF Len(subkeys) # 2
             THEN [NoResult EXCEPT !.err = "AssertionError: Too many properties in covariance request"]
             ELSE statistic(G, M, s, "cov", subkeys, <<0, 1>>)
    ELSE IF startswith(key, "delta_") THEN statistic(G, M, s, "delta", <<from(key, 6)>>, <<>>)
    ELSE IF startswith(key, "sigma_") THEN statistic(G, M, s, "std", <<from(key, 6)>>, <<>>)
    ELSE IF startswith(key, "mean_") THEN statistic(G, M, s, "avg", <<from(key, 5)>>, <<>>)
    ELSE IF startswith(key, "min_") THEN statistic(G, M, s, "min", <<from(key, 4)>>, <<>>)
    ELSE IF startswith(key, "max_") THEN statistic(G, M, s, "max", <<from(key, 4)>>, <<>>)
    ELSE IF startswith(key, "ptp_") THEN statistic(G, M, s, "ptp", <<from(key, 4)>>, <<>>)
    ELSE LET got == getattr(G, M, s, key)
         IN  IF got.err # "" THEN [NoResult EXCEPT !.err = got.err]
             ELSE [err |-> "", fn |-> "getattr", args |-> <<key>>, of |-> <<got.val>>, pick |-> <<>>]

\* P[key] for a string key: nothing is changed
Lookup(s, key) ==
    /\ nops < MaxOps
    /\ live(groups, s)
    /\ LET r == getitem(groups, mem, s, key)
       IN  Return(Here, Call("lookup", <<s>>, <<>>, r.err, 0, key, r, <<>>))

\* the names looked up
Names == {"x", "weight", "id", "species", "energy", "charge", "n_particle", "gamma", "nosuch", ""}

\* the string keys looked up: names alone, names behind every prefix, and
\* covariance requests of one, two and three parts, with empty parts and with
\* underscores that are not separators
Keys ==
    Names
    \cup {p \o n : p \in {"delta_", "sigma_", "mean_", "min_", "max_", "ptp_"},
                   n \in {"x", "energy", "id", "nosuch", ""}}
    \cup {"cov_x__px", "cov_x__energy", "cov_x__nosuch", "cov_nosuch__x", "cov_x", "cov_",
          "cov_x__px__y", "cov_x__", "cov___x", "cov_x_px", "cov_x___px", "cov_x____px",
          "cov_mean_x__x"}
    \cup {"delta", "mean", "min", "cov", "covx__px", "Mean_x", "sigmx_x", "mean_mean_x",
          "xmean_", "_sort", "_settable_keys"}

\* bracket lookup alone: construction, then one P[key] with a string or a
\* non-string key
NextKey ==
    \/ nops = 0 /\ \E data \in Bunches : New(data)
    \/ nops = 1 /\ \E s \in Callable, key \in Keys : Lookup(s, key)
    \/ nops = 1 /\ \E s \in Callable, x \in IntIndexes : Parts(s, x)
    \/ nops = 1 /\ \E s \in Callable, x \in SliceIndexes : Parts(s, x)
    \/ nops = 1 /\ \E s \in Callable : \E x \in MaskIndexes(len(groups, s)) : Parts(s, x)
    \/ nops = 1 /\ \E s \in Callable, x \in ArrayIndexes : Parts(s, x)

SpecKey == Init /\ [][NextKey]_vars


-----------------------------------------------------------------------------
(* Properties *)

InPlace == {"drift", "drift_to_z", "drift_to_t", "charge", "assign_id", "_sort"}
Producers == {"copy", "getitem", "where", "split", "resample", "join"}

\* the particles of group s as the code sees them: the items of every settable array
Particles(G, M, s) == [k \in Range(G[s].keys) |-> Arr(G, M, s, k)]

\* C1: in every reachable ensemble the required canonical arrays are present,
\* every canonical array present (id included) has one and the same length,
\* and len(ensemble) is that length
C1_EqualLengths ==
    \A s \in LiveSlots(groups) :
        /\ Range(required_keys) \subseteq Range(groups[s].keys)
        /\ \A k \in Range(groups[s].keys) : Len(Arr(groups, mem, s, k)) = len(groups, s)

\* an ensemble returned by join, carrying id, of three particles or more, after
\* an in-place drift_to_z on it
C1_Witness ==
    /\ last.op = "drift_to_z" /\ last.ok
    /\ made[last.src[1]].op = "join"
    /\ "id" \in Range(groups[last.src[1]].keys)
    /\ len(groups, last.src[1]) >= 3

\* C2: after E.drift_to_t(t0), for a given target t0, every t of E equals t0
C2_DriftToTExact ==
    (last.op = "drift_to_t" /\ last.ok /\ last.val # None) =>
        \A i \in 1..len(groups, last.src[1]) :
            Arr(groups, mem, last.src[1], "t")[i] = last.val


\* group s is left as it was by the step
Untouched(s) ==
    /\ groups'[s].keys = groups[s].keys
    /\ groups'[s].species = groups[s].species
    /\ Particles(groups', mem', s) = Particles(groups, mem, s)

Ascending(a) == \A i \in 1..(Len(a) - 1) : RLeq(a[i], a[i + 1])

\* C3: for any ensemble E and k >= 1, join of the list E.split(k) succeeds, its
\* total charge is E's, and its particles are a permutation of E's in ascending
\* order of the split key
C3_SplitThenJoin ==
    [][(last.op = "split" /\ last.ok /\ last.n >= 1 /\ last'.op = "join" /\ last'.src = last.dst) =>
          /\ last'.ok
          /\ LET E == last.src[1]
                 J == last'.dst[1]
             IN  /\ charge(groups', mem', J) = charge(groups, mem, E)
                 /\ Ascending(Arr(groups', mem', J, last.key))
                 /\ \E p \in Perms(len(groups, E)) :
                       \A k \in Range(groups[E].keys) :
                           Arr(groups', mem', J, k) = Take(Arr(groups, mem, E, k), p)]_vars

\* C4: an ensemble returned by a non-string index, by where or by split has the
\* species of the ensemble it was taken from
C4_SpeciesKept ==
    (last.op \in {"getitem", "where", "split"} /\ last.ok) =>
        \A i \in DOMAIN last.dst : groups[last.dst[i]].species = groups[last.src[1]].species

\* C5: the id values of an ensemble that carries id are pairwise distinct
C5_UniqueIds ==
    \A s \in LiveSlots(groups) :
        "id" \in Range(groups[s].keys) =>
            \A i, j \in 1..groups[s].arr["id"].len :
                i # j => Arr(groups, mem, s, "id")[i] # Arr(groups, mem, s, "id")[j]

\* C6: join of two or more ensembles fails, changing no operand, when the
\* species differ; otherwise it returns an ensemble whose count and charge are
\* the sums, whose species is the common one and whose arrays are the
\* operands' arrays concatenated in argument order
C6_Join ==
    [][(last'.op = "join" /\ nops' = nops + 1 /\ Len(last'.src) >= 2) =>
          LET pgs == last'.src
              same == \A i \in DOMAIN pgs : groups[pgs[i]].species = groups[pgs[1]].species
          IN  IF ~same
              THEN ~last'.ok /\ \A i \in DOMAIN pgs : Untouched(pgs[i])
              ELSE /\ last'.ok
                   /\ LET J == last'.dst[1]
                      IN  /\ I(len(groups', J)) = RSum([i \in DOMAIN pgs |-> I(len(groups, pgs[i]))])
                          /\ charge(groups', mem', J)
                                = RSum([i \in DOMAIN pgs |-> charge(groups, mem, pgs[i])])
                          /\ groups'[J].species = groups[pgs[1]].species
                          /\ \A k \in Range(groups'[J].keys) :
                                Arr(groups', mem', J, k)
                                   = np_hstack([i \in DOMAIN pgs |-> Arr(groups, mem, pgs[i], k)])]_vars

\* all items of w are identical
Uniform(w) == \A i, j \in DOMAIN w : w[i] = w[j]

\* a resample(n) step does what C7 says of it, for every n >= lowest
ResampleAsClaimed(lowest) ==
    (last'.op = "resample" /\ nops' = nops + 1) =>
        LET s == last'.src[1]
            n == last'.n
            n_old == len(groups, s)
            w == Arr(groups, mem, s, "weight")
        IN  /\ Untouched(s)
            /\ (n > n_old \/ ~Uniform(w)) => ~last'.ok
            /\ (n <= n_old /\ Uniform(w) /\ n >= lowest) =>
                  /\ last'.ok
                  /\ LET R == last'.dst[1]
                     IN  /\ len(groups', R) = n
                         /\ \E p \in Choices(n_old, n) :
                               \A k \in Range(groups[s].keys) :
                                  Arr(groups', mem', R, k) =
                                     [i \in 1..n |->
                                        IF k = "weight"
                                        THEN RDiv(RMul(w[p[i] + 1], I(n_old)), I(n))
                                        ELSE Arr(groups, mem, s, k)[p[i] + 1]]
                         /\ charge(groups', mem', R) = charge(groups, mem, s)

C8_Split ==
    [][(last'.op = "split" /\ nops' = nops + 1 /\ last'.n >= 1) =>
          LET s == last'.src[1]
              ds == last'.dst
              size(j) == len(groups', ds[j])
          IN  /\ last'.ok
              /\ Len(ds) = last'.n
              /\ \A j \in DOMAIN ds : ~live(groups, ds[j]) /\ live(groups', ds[j])
              /\ \A i, j \in DOMAIN ds : i # j => ds[i] # ds[j]
              /\ RSum([j \in DOMAIN ds |-> I(size(j))]) = I(len(groups, s))
              /\ \A i, j \in DOMAIN ds : size(i) - size(j) <= 1
              /\ \A j \in 1..(Len(ds) - 1) :
                    \A a \in 1..size(j), b \in 1..size(j + 1) :
                        RLeq(Arr(groups', mem', ds[j], last'.key)[a],
                             Arr(groups', mem', ds[j + 1], last'.key)[b])
              /\ Untouched(s)]_vars

\* three particles have been split in two chunks, of two and of one
C8_Witness ==
    /\ last.op = "split" /\ last.ok /\ last.n = 2
    /\ len(groups, last.src[1]) = 3
    /\ len(groups, last.dst[1]) = 2
    /\ len(groups, last.dst[2]) = 1

\* group r was returned by a call on group s (split, resample, join, subsetting, copy)
ProducedFrom(r, s) == made[r].op \in Producers /\ s \in Range(made[r].src)

\* C10: an in-place call on an ensemble leaves unchanged every ensemble it was
\* produced from and every ensemble produced from it
C10_NoSharedState ==
    [][(last'.op \in InPlace /\ nops' = nops + 1) =>
          \A r \in LiveSlots(groups) \ {last'.src[1]} :
              (ProducedFrom(r, last'.src[1]) \/ ProducedFrom(last'.src[1], r)) => Untouched(r)]_vars

\* the charge of a slice of two particles or more has been set
C10_Witness ==
    /\ last.op = "charge" /\ last.ok
    /\ made[last.src[1]].op = "getitem" /\ made[last.src[1]].key = "slice"
    /\ len(groups, last.src[1]) >= 2
    /\ charge(groups, mem, last.src[1]) = last.val


\* the lengths of the sequences a keyed mapping supplies (scalars have none)
SuppliedLengths(data) == {data[k].len : k \in {k \in DOMAIN data : data[k].kind = "array"}}

\* every array of the constructed group d has length n
AllOfLength(d, n) == \A k \in Range(groups[d].keys) : Len(Arr(groups, mem, d, k)) = n

\* every array of the constructed group d is the supplied array, or the
\* supplied scalar or single item repeated n times
Broadcast(d, data, n) ==
    \A k \in Range(groups[d].keys) :
        Arr(groups, mem, d, k) =
            IF data[k].kind = "array" /\ data[k].len # 1 THEN data[k].data
            ELSE [i \in 1..n |-> data[k].data[1]]

\* C9, arrays being the values longer than 1: with no such value the result is a single
\* particle; otherwise construction fails if the values longer than 1 differ in
\* length, else everything is broadcast to their common length
C9_LongerThanOne ==
    (last.op = "new") =>
        LET long == {l \in SuppliedLengths(last.val) : l > 1}
        IN  IF long = {} THEN last.ok /\ AllOfLength(last.dst[1], 1)
            ELSE IF Cardinality(long) > 1 THEN ~last.ok
            ELSE /\ last.ok
                 /\ \A n \in long : AllOfLength(last.dst[1], n) /\ Broadcast(last.dst[1], last.val, n)

\* C9, arrays being the sequences of any length other than 1, length 0
\* included: with no such value the result is a single particle; construction
\* fails if they differ in length or the species are mixed; else every scalar and
\* every one-item sequence is repeated to their common length
C9_Construct ==
    (last.op = "new") =>
        LET arrays == {l \in SuppliedLengths(last.val) : l # 1}
            mixed == Cardinality(Range(last.val["species"].data)) > 1
        IN  IF arrays = {} THEN last.ok /\ AllOfLength(last.dst[1], 1) /\ Broadcast(last.dst[1], last.val, 1)
            ELSE IF Cardinality(arrays) > 1 \/ mixed THEN ~last.ok
            ELSE /\ last.ok
                 /\ \A n \in arrays : AllOfLength(last.dst[1], n) /\ Broadcast(last.dst[1], last.val, n)

\* a scalar z and a one-item t have been broadcast to the three items of weight
C9_Witness ==
    /\ last.op = "new" /\ last.ok
    /\ last.val["z"].kind = "scalar" /\ last.val["t"].len = 1 /\ last.val["weight"].len = 3
    /\ Arr(groups, mem, last.dst[1], "z") = <<I(7), I(7), I(7)>>
    /\ Arr(groups, mem, last.dst[1], "t") = <<I(1), I(1), I(1)>>

\* the step sets the charge of an ensemble to v: a failed call changes nothing,
\* no array but weight changes, and (for weights of nonzero sum, or of any sum
\* when anysum is set) every weight has been
\* multiplied by v / (sum of the weights before) and the charge is v
ChargeStep(anysum) ==
    (last'.op = "charge" /\ nops' = nops + 1) =>
        LET s == last'.src[1]
            v == last'.val
            w == Arr(groups, mem, s, "weight")
            before == charge(groups, mem, s)
            rescale == anysum \/ ~RZero(before)
        IN  /\ groups'[s].keys = groups[s].keys
            /\ \A k \in Range(groups[s].keys) \ {"weight"} :
                  Arr(groups', mem', s, k) = Arr(groups, mem, s, k)
            /\ RLeq(v, I(0)) => ~last'.ok /\ Arr(groups', mem', s, "weight") = w
            /\ RLess(I(0), v) => last'.ok
            /\ (RLess(I(0), v) /\ rescale) =>
                  /\ Arr(groups', mem', s, "weight")
                        = [i \in 1..Len(w) |-> RMul(w[i], RDiv(v, before))]
                  /\ charge(groups', mem', s) = v
            /\ (RLess(I(0), v) /\ ~rescale) =>
                  Arr(groups', mem', s, "weight") = w

Occurrences(keys, k) == Cardinality({i \in DOMAIN keys : keys[i] = k})

\* a call of assign_id returns, leaving id = 1..n in the list of array keys
\* exactly once and every other array as it was
AssignIdStep ==
    (last'.op = "assign_id" /\ nops' = nops + 1) =>
        LET s == last'.src[1]
        IN  /\ last'.ok
            /\ Occurrences(groups'[s].keys, "id") = 1
            /\ Arr(groups', mem', s, "id") = [i \in 1..len(groups, s) |-> I(i)]
            /\ \A k \in Range(groups[s].keys) \ {"id"} :
                  Arr(groups', mem', s, k) = Arr(groups, mem, s, k)

\* a call of _sort, subsetting, where, split, resample or join that returns
\* carries the id of every operand along: _sort reorders id with the other
\* arrays, and every ensemble returned holds an id array, of its own length,
\* whose values are ids of the operands
CarriesId(mixed) ==
    (/\ last'.op \in {"_sort", "getitem", "where", "split", "resample", "join"}
     /\ nops' = nops + 1
     /\ last'.ok
     /\ \E i \in DOMAIN last'.src : "id" \in Range(groups[last'.src[i]].keys)
     /\ mixed \/ \A i \in DOMAIN last'.src : "id" \in Range(groups[last'.src[i]].keys)) =>
        LET ids == UNION {Range(Arr(groups, mem, last'.src[i], "id")) :
                            i \in {j \in DOMAIN last'.src : "id" \in Range(groups[last'.src[j]].keys)}}
        IN  IF last'.op = "_sort"
            THEN LET s == last'.src[1]
                 IN  /\ Occurrences(groups'[s].keys, "id") = 1
                     /\ Arr(groups', mem', s, "id") = Take(Arr(groups, mem, s, "id"), last'.ix)
            ELSE \A j \in DOMAIN last'.dst :
                    LET d == last'.dst[j]
                    IN  /\ Occurrences(groups'[d].keys, "id") = 1
                        /\ Len(Arr(groups', mem', d, "id")) = len(groups', d)
                        /\ Range(Arr(groups', mem', d, "id")) \subseteq ids

\* C12: assign_id sets id to 1..n in the current order whether or not id was
\* present (so a second call leaves id unchanged), registers id as an array key
\* exactly once, and later _sort, subsetting, split, resample and join carry
\* the id along
C12_AssignId == [][AssignIdStep /\ CarriesId(TRUE)]_vars


\* the statistics method each prefix stands for
Prefixes ==
    [p \in {"delta_", "sigma_", "mean_", "min_", "max_", "ptp_"} |->
        CASE p = "delta_" -> "delta" [] p = "sigma_" -> "std" [] p = "mean_" -> "avg"
          [] p = "min_" -> "min" [] p = "max_" -> "max" [] p = "ptp_" -> "ptp"]

\* the ways of writing key as head followed by tail
Cuts(key) == {<<SubSeq(key, 1, i), SubSeq(key, i + 1, Len(key))>> : i \in 0..Len(key)}

\* the pairs <<A, B>> with key = 'cov_' A '__' B where this double underscore is
\* the first of the remainder and B holds no other: the remainder splits on
\* '__' into exactly A and B
CovParts(key) ==
    LET plain(a) == \A i \in 1..(Len(a) - 1) : SubSeq(a, i, i + 1) # "__"
        heads == {SubSeq(key, 5, i) : i \in 4..Len(key)}
        tails == {c[2] : c \in Cuts(key)}
    IN  {ab \in heads \X tails :
            /\ key = "cov_" \o ab[1] \o "__" \o ab[2]
            /\ plain(ab[1] \o "_") /\ plain(ab[2])}

\* does an attribute of that name exist on ensemble s
HasAttribute(s, name) ==
    name \in Range(groups[s].keys) \cup {"species"} \cup instance_attributes \cup class_attributes

=============================================================================
